---- MODULE Spec2Model ----
(***************************************************************************)
(* A model of severmore/pygraph: the adjacency-list graph store            *)
(* (src/bipartite/graph.py: Graph, UDGraph) and the shortest-path routine  *)
(* (src/bipartite/dijkstra_algoritm.py).                                   *)
(*                                                                         *)
(* A Python list is a TLA+ sequence; the element at Python index i of a   *)
(* list of length n is element i+1 (or n+i+1 for -n <= i < 0) of the       *)
(* sequence.  A raised exception is a value of the field "raised".         *)
(***************************************************************************)
EXTENDS Integers, Sequences, FiniteSets, Bags, TLC

VARIABLES
  class,         \* "Graph" | "UDGraph" | "NoneType" (no object: __init__ raised)
  vertices_num,  \* self.vertices_num
  edges,         \* self.edges: a list of lists of int
  max_degree,    \* self.max_degree
  last,          \* the last call on the object: its arguments, outcome and the edges before it
  pc,            \* where a call of dijkstra_algorithm or relaxation stands
  frame,         \* the arguments and local variables of that call
  raised         \* the exception that ended it

gvars == <<class, vertices_num, edges, max_degree, last>>

dvars == <<pc, frame, raised>>

vars == <<class, vertices_num, edges, max_degree, last, pc, frame, raised>>

----------------------------------------------------------------------------
(* Bounds of the model *)

\* vertex identifiers are 0..MaxV-1, an explicit vertices_num is at most MaxV
MaxV == 2
\* the longest edge list given to a constructor
MaxEdges == 1
\* calls that would make an adjacency list longer than this are not taken
MaxDeg == 3
\* the longest adjacency list before add_edge followed by remove_edge
MaxPre == 2
\* the graphs given to dijkstra_algorithm have 1..MaxN vertices
MaxN == 3
\* edge weights are 0..MaxWeight
MaxWeight == 1
\* tentative distances are 0..MaxDist
MaxDist == 3

----------------------------------------------------------------------------
(* Python values *)

None == [class |-> "NoneType", edges |-> <<>>]

NoError == "none"

Max(a, b) == IF a > b THEN a ELSE b

Min(a, b) == IF a < b THEN a ELSE b

\* list[i]: the 1-based position of Python index i in a list of length n,
\* 0 when list[i] raises IndexError
PyIndex(n, i) ==
  IF 0 <= i /\ i < n THEN i + 1
  ELSE IF i < 0 /\ -n <= i THEN n + i + 1
  ELSE 0

\* x in list
Contains(s, x) == \E i \in 1..Len(s) : s[i] = x

\* the position of the first occurrence of x in s, 0 when there is none
FirstIndex(s, x) ==
  IF Contains(s, x) THEN CHOOSE i \in 1..Len(s) : s[i] = x /\ \A j \in 1..(i-1) : s[j] # x
  ELSE 0

DropAt(s, i) == SubSeq(s, 1, i - 1) \o SubSeq(s, i + 1, Len(s))

\* a variant of list.remove that drops every occurrence of x
ListRemoveAll(s, x) == SelectSeq(s, LAMBDA y : y # x)

\* list.remove(x) on a list that contains x: drops the first occurrence
ListRemove(s, x) == DropAt(s, FirstIndex(s, x))

\* collections.Counter(list)
RECURSIVE Counter(_)
Counter(s) == IF s = <<>> THEN EmptyBag ELSE Counter(Tail(s)) (+) SetToBag({Head(s)})

----------------------------------------------------------------------------
(* Graph and UDGraph methods, as functions of the adjacency lists E.  Each  *)
(* returns the lists the call leaves behind and the exception it raised.    *)

Ok(E) == [edges |-> E, raised |-> NoError]

Raise(E, exc) == [edges |-> E, raised |-> exc]

\* self.edges[start].append(end)
AppendTo(E, start, end) ==
  LET p == PyIndex(Len(E), start)
  IN IF p = 0 THEN Raise(E, "IndexError")
     ELSE Ok([E EXCEPT ![p] = Append(@, end)])

\* self.edges[start].extend(incidence)
ExtendAt(E, start, incidence) ==
  LET p == PyIndex(Len(E), start)
  IN IF p = 0 THEN Raise(E, "IndexError")
     ELSE Ok([E EXCEPT ![p] = @ \o incidence])

\* self.edges[start].remove(end)
RemoveFrom(E, start, end) ==
  LET p == PyIndex(Len(E), start)
  IN IF p = 0 THEN Raise(E, "IndexError")
     ELSE IF ~Contains(E[p], end) THEN Raise(E, "ValueError")
     ELSE Ok([E EXCEPT ![p] = ListRemove(@, end)])

Graph_add_edge(E, start, end) == AppendTo(E, start, end)

Graph_remove_edge(E, start, end) == RemoveFrom(E, start, end)

\* a variant of UDGraph.add_edge that forgets the mirrored entry
UDGraph_add_edge_oneside(E, start, end) == AppendTo(E, start, end)

UDGraph_add_edge(E, start, end) ==
  LET a == AppendTo(E, start, end)
  IN IF a.raised # NoError THEN a ELSE AppendTo(a.edges, end, start)

UDGraph_remove_edge(E, start, end) ==
  LET a == RemoveFrom(E, start, end)
  IN IF a.raised # NoError THEN a ELSE RemoveFrom(a.edges, end, start)

add_edge(cls, E, start, end) ==
  IF cls = "UDGraph" THEN UDGraph_add_edge(E, start, end) ELSE Graph_add_edge(E, start, end)

remove_edge(cls, E, start, end) ==
  IF cls = "UDGraph" THEN UDGraph_remove_edge(E, start, end)
  ELSE Graph_remove_edge(E, start, end)

\* for start, incidence in enumerate(other): self.edges[start].extend(incidence),
\* from position i of other on
RECURSIVE ExtendFrom(_, _, _)
ExtendFrom(E, other, i) ==
  IF i > Len(other) THEN Ok(E)
  ELSE LET a == ExtendAt(E, i - 1, other[i])
       IN IF a.raised # NoError THEN a ELSE ExtendFrom(a.edges, other, i + 1)

union(E, other) == ExtendFrom(E, other, 1)

\* all([Counter(i_s) == Counter(i_o) for i_s, i_o in zip(self.edges, other.edges)])
eq(E, other) ==
  \A i \in 1..Min(Len(E), Len(other)) : Counter(E[i]) = Counter(other[i])

\* len(self.edges[vertex])
degree(E, vertex) ==
  LET p == PyIndex(Len(E), vertex)
  IN IF p = 0 THEN [value |-> -1, raised |-> "IndexError"]
     ELSE [value |-> Len(E[p]), raised |-> NoError]

RECURSIVE MaxLenFrom(_, _, _)
MaxLenFrom(E, i, m) ==
  IF i > Len(E) THEN m
  ELSE MaxLenFrom(E, i + 1, IF Len(E[i]) > m THEN Len(E[i]) ELSE m)

update_max_degree(E) == MaxLenFrom(E, 1, 0)

----------------------------------------------------------------------------
(* Construction *)

RECURSIVE MaxEndpointFrom(_, _, _)
MaxEndpointFrom(es, i, m) ==
  IF i > Len(es) THEN m
  ELSE MaxEndpointFrom(es, i + 1, Max(m, Max(es[i][1], es[i][2])))

\* max(max(edges, key=lambda x: max(x[0], x[1]))) for a non-empty edge list
MaxEndpoint(es) == MaxEndpointFrom(es, 1, Max(es[1][1], es[1][2]))

\* the vertex count __init__ settles on
InferVerticesNum(es, graph, vnum) ==
  IF vnum # 0 THEN vnum
  ELSE LET a == IF es # <<>> THEN MaxEndpoint(es) + 1 ELSE 0
           b == IF graph # None THEN Len(graph.edges) ELSE 0
       IN IF b > a THEN b ELSE a

\* for start, end in edges: self.edges[start].append(end), from position i on
RECURSIVE AppendEdges(_, _, _)
AppendEdges(E, es, i) ==
  IF i > Len(es) THEN Ok(E)
  ELSE LET a == AppendTo(E, es[i][1], es[i][2])
       IN IF a.raised # NoError THEN a ELSE AppendEdges(a.edges, es, i + 1)

\* for start, end in edges: self.edges[end].append(start), from position i on
RECURSIVE AppendReversed(_, _, _)
AppendReversed(E, es, i) ==
  IF i > Len(es) THEN Ok(E)
  ELSE LET a == AppendTo(E, es[i][2], es[i][1])
       IN IF a.raised # NoError THEN a ELSE AppendReversed(a.edges, es, i + 1)

\* the pairs (start, end) of a graph's adjacency lists in the order
\* "for start, incidence in enumerate(graph.edges): for end in incidence" visits them
RECURSIVE Arcs(_, _, _)
Arcs(E, i, j) ==
  IF i > Len(E) THEN <<>>
  ELSE IF j > Len(E[i]) THEN Arcs(E, i + 1, 1)
  ELSE <<(<<i - 1, E[i][j]>>)>> \o Arcs(E, i, j + 1)

Graph_init(es, graph, vnum) ==
  LET n  == InferVerticesNum(es, graph, vnum)
      E0 == [i \in 1..n |-> <<>>]
      a  == AppendEdges(E0, es, 1)
  IN IF a.raised # NoError THEN a
     ELSE IF graph # None THEN ExtendFrom(a.edges, graph.edges, 1)
     ELSE a

UDGraph_init(es, graph, vnum) ==
  LET a == Graph_init(es, graph, vnum)
  IN IF a.raised # NoError THEN a
     ELSE LET b == AppendReversed(a.edges, es, 1)
          IN IF b.raised # NoError THEN b
             ELSE IF graph.class = "Graph"
                  THEN AppendReversed(b.edges, Arcs(graph.edges, 1, 1), 1)
             ELSE b

init(cls, es, graph, vnum) ==
  IF cls = "UDGraph" THEN UDGraph_init(es, graph, vnum) ELSE Graph_init(es, graph, vnum)

----------------------------------------------------------------------------
(* Inputs *)

Vertices == 0..(MaxV - 1)

RECURSIVE SeqsUpTo(_, _)
SeqsUpTo(S, n) ==
  IF n = 0 THEN {<<>>}
  ELSE LET R == SeqsUpTo(S, n - 1)
       IN R \cup {Append(r, x) : r \in {q \in R : Len(q) = n - 1}, x \in S}

\* the edge lists a constructor is given
EdgeLists == SeqsUpTo(Vertices \X Vertices, MaxEdges)

Classes == {"Graph", "UDGraph"}

\* the graphs handed to a constructor, to union and to __eq__: None is only
\* a constructor's default
GraphArgs ==
  {[class |-> c, edges |-> init(c, es, None, 0).edges] :
     c \in Classes, es \in EdgeLists}

Fits(E) == \A i \in 1..Len(E) : Len(E[i]) <= MaxDeg

----------------------------------------------------------------------------
(* The graph store as a state machine: one object, its constructor and the  *)
(* calls made on it.                                                        *)

NoCall ==
  [op |-> "none", u |-> 0, v |-> 0, es |-> <<>>, graph |-> None, raised |-> NoError,
   value |-> 0, equal |-> FALSE, pre |-> <<>>]

\* no call of the shortest-path module is in progress
NoPath == pc = "idle" /\ frame = <<>> /\ raised = NoError

Construct(cls, es, graph, vnum) ==
  LET r == init(cls, es, graph, vnum)
  IN /\ class = IF r.raised = NoError THEN cls ELSE "NoneType"
     /\ edges = IF r.raised = NoError THEN r.edges ELSE <<>>
     /\ vertices_num = IF r.raised = NoError THEN Len(r.edges) ELSE 0
     /\ max_degree = IF r.raised = NoError THEN update_max_degree(r.edges) ELSE 0
     /\ last = [NoCall EXCEPT !.op = "__init__", !.u = vnum, !.es = es, !.graph = graph,
                              !.raised = r.raised]

Init ==
  /\ \E cls \in Classes, es \in EdgeLists, graph \in GraphArgs \cup {None}, vnum \in 0..MaxV :
       Construct(cls, es, graph, vnum)
  /\ NoPath

Exists == class # "NoneType"

Valid == 0..(vertices_num - 1)

AddEdge(start, end) ==
  LET r == add_edge(class, edges, start, end)
  IN /\ Exists
     /\ Fits(r.edges)
     /\ edges' = r.edges
     /\ last' = [NoCall EXCEPT !.op = "add_edge", !.u = start, !.v = end,
                               !.raised = r.raised, !.pre = edges]
     /\ UNCHANGED <<class, vertices_num, max_degree, pc, frame, raised>>

RemoveEdge(start, end) ==
  LET r == remove_edge(class, edges, start, end)
  IN /\ Exists
     /\ edges' = r.edges
     /\ last' = [NoCall EXCEPT !.op = "remove_edge", !.u = start, !.v = end,
                               !.raised = r.raised, !.pre = edges]
     /\ UNCHANGED <<class, vertices_num, max_degree, pc, frame, raised>>

Union(graph) ==
  LET r == union(edges, graph.edges)
  IN /\ Exists
     /\ Fits(r.edges)
     /\ edges' = r.edges
     /\ last' = [NoCall EXCEPT !.op = "union", !.graph = graph,
                               !.raised = r.raised, !.pre = edges]
     /\ UNCHANGED <<class, vertices_num, max_degree, pc, frame, raised>>

Eq(graph) ==
  /\ Exists
  /\ last' = [NoCall EXCEPT !.op = "__eq__", !.graph = graph,
                            !.equal = eq(edges, graph.edges), !.pre = edges]
  /\ UNCHANGED <<class, vertices_num, edges, max_degree, pc, frame, raised>>

Degree(vertex) ==
  LET r == degree(edges, vertex)
  IN /\ Exists
     /\ last' = [NoCall EXCEPT !.op = "degree", !.u = vertex, !.value = r.value,
                               !.raised = r.raised, !.pre = edges]
     /\ UNCHANGED <<class, vertices_num, edges, max_degree, pc, frame, raised>>

UpdateMaxDegree ==
  /\ Exists
  /\ max_degree' = update_max_degree(edges)
  /\ last' = [NoCall EXCEPT !.op = "update_max_degree", !.pre = edges]
  /\ UNCHANGED <<class, vertices_num, edges, pc, frame, raised>>

Next ==
  \/ \E start \in Valid, end \in Valid : AddEdge(start, end)
  \/ \E start \in Valid, end \in Valid : RemoveEdge(start, end)
  \/ \E graph \in GraphArgs : Union(graph)
  \/ \E graph \in GraphArgs : Eq(graph)
  \/ \E vertex \in (-MaxV)..MaxV : Degree(vertex)
  \/ UpdateMaxDegree

Spec == Init /\ [][Next]_vars

----------------------------------------------------------------------------
(* An undirected graph whose whole history is its constructor, add_edge     *)
(* and remove_edge.                                                         *)

InitUD ==
  /\ \E es \in EdgeLists, graph \in GraphArgs \cup {None}, vnum \in 0..MaxV :
       Construct("UDGraph", es, graph, vnum)
  /\ NoPath

NextUD ==
  \/ \E start \in Valid, end \in Valid : AddEdge(start, end)
  \/ \E start \in Valid, end \in Valid : RemoveEdge(start, end)

SpecUD == InitUD /\ [][NextUD]_vars

----------------------------------------------------------------------------
(* add_edge(u, v) followed immediately by remove_edge(u, v), from any       *)
(* state of the adjacency lists.  A directed graph reaches every such state *)
(* by add_edge, an undirected one by union with a directed graph.           *)

InitAddRemove ==
  \E cls \in Classes, n \in 1..MaxV :
    \E E \in [1..n -> SeqsUpTo(0..(n - 1), MaxPre)] :
      /\ class = cls
      /\ vertices_num = n
      /\ edges = E
      /\ max_degree = update_max_degree(E)
      /\ last = NoCall
      /\ NoPath

FirstAdd(start, end) ==
  LET r == add_edge(class, edges, start, end)
  IN /\ last.op = "none"
     /\ edges' = r.edges
     /\ last' = [NoCall EXCEPT !.op = "add_edge", !.u = start, !.v = end,
                               !.raised = r.raised, !.pre = edges]
     /\ UNCHANGED <<class, vertices_num, max_degree, pc, frame, raised>>

ThenRemove ==
  LET r == remove_edge(class, edges, last.u, last.v)
  IN /\ last.op = "add_edge"
     /\ edges' = r.edges
     /\ last' = [last EXCEPT !.op = "add_edge;remove_edge", !.raised = r.raised]
     /\ UNCHANGED <<class, vertices_num, max_degree, pc, frame, raised>>

NextAddRemove ==
  \/ \E start \in Valid, end \in Valid : FirstAdd(start, end)
  \/ ThenRemove

SpecAddRemove == InitAddRemove /\ [][NextAddRemove]_vars

----------------------------------------------------------------------------
(* Properties of the graph store *)

\* adjacency[v] of the lists E
Adj(E, v) == E[v + 1]

\* C1: in an undirected graph built by its constructor, after any sequence of
\* add_edge and remove_edge calls with valid vertices (failed calls included),
\* v is in adjacency[u] iff u is in adjacency[v]
C1_Symmetry ==
  class = "UDGraph" =>
    \A u \in Valid, v \in Valid : Contains(Adj(edges, u), v) <=> Contains(Adj(edges, v), u)

\* a remove_edge that failed, on a graph that still has an edge between two vertices
C1_Witness ==
  /\ class = "UDGraph"
  /\ last.op = "remove_edge"
  /\ last.raised = "ValueError"
  /\ \E u \in Valid, v \in Valid : u # v /\ Contains(Adj(edges, u), v)

\* C2: UDGraph.remove_edge(u, v) is all-or-nothing: when v is missing from
\* adjacency[u] or u from adjacency[v], the call fails and no list has changed
C2_RemoveAllOrNothing ==
  (/\ class = "UDGraph"
   /\ last.op = "remove_edge"
   /\ \/ ~Contains(Adj(last.pre, last.u), last.v)
      \/ ~Contains(Adj(last.pre, last.v), last.u))
  => (last.raised # NoError /\ edges = last.pre)

\* C5 as claimed: add_edge(u, v) then remove_edge(u, v) leaves every adjacency
\* list the same ordered sequence as before, whatever the lists held
C5_RestoresOrder ==
  last.op = "add_edge;remove_edge" => edges = last.pre

\* C5 amended: add_edge(u, v) then remove_edge(u, v) succeeds and leaves every
\* adjacency list with the same multiset of neighbours as before, and the same
\* ordered sequence when v was not in adjacency[u] (nor, in an undirected graph,
\* u in adjacency[v]) before
C5_RestoresCounts ==
  last.op = "add_edge;remove_edge" =>
    /\ last.raised = NoError
    /\ Len(edges) = Len(last.pre)
    /\ \A i \in 1..Len(edges) : Counter(edges[i]) = Counter(last.pre[i])
    /\ (/\ ~Contains(Adj(last.pre, last.u), last.v)
        /\ class = "UDGraph" => ~Contains(Adj(last.pre, last.v), last.u))
       => edges = last.pre

\* the pair of calls on an undirected graph that already had v in adjacency[u]
C5_Witness ==
  /\ last.op = "add_edge;remove_edge"
  /\ class = "UDGraph"
  /\ last.u # last.v
  /\ Contains(Adj(last.pre, last.u), last.v)
  /\ edges # last.pre

\* C6: union with a graph of another vertex count fails and leaves every
\* adjacency list of the receiver unchanged
C6_UnionMismatchRejected ==
  (last.op = "union" /\ Len(last.graph.edges) # Len(last.pre))
  => (last.raised # NoError /\ edges = last.pre)

\* the multiset of neighbours of the vertex at position i, empty past the last vertex
Neighbours(E, i) == IF i <= Len(E) THEN Counter(E[i]) ELSE EmptyBag

\* C7: __eq__ is true iff every vertex of either graph has the same multiset of
\* neighbours in both graphs
C7_EqIsMultisetEquality ==
  last.op = "__eq__" =>
    (last.equal <=>
       \A i \in 1..Max(Len(last.pre), Len(last.graph.edges)) :
         Neighbours(last.pre, i) = Neighbours(last.graph.edges, i))

\* some start or end among the pairs es is at least n
RefersBeyond(es, n) == \E i \in 1..Len(es) : es[i][1] >= n \/ es[i][2] >= n

\* C8: a constructor given a non-zero vertices_num and an edge list or source
\* graph with an endpoint >= vertices_num raises, and no graph it produces has
\* an adjacency entry outside [0, vertices_num)
C8_ConstructorRejectsBeyond ==
  last.op = "__init__" =>
    /\ (/\ last.u # 0
        /\ \/ RefersBeyond(last.es, last.u)
           \/ RefersBeyond(Arcs(last.graph.edges, 1, 1), last.u))
       => last.raised # NoError
    /\ \A i \in 1..Len(edges) : \A j \in 1..Len(edges[i]) : edges[i][j] \in Valid

\* C9: degree(v) is len(adjacency[v]) for v in [0, vertices_num) and raises for
\* every other integer
C9_DegreeChecksRange ==
  last.op = "degree" =>
    IF last.u \in Valid
    THEN last.raised = NoError /\ last.value = Len(Adj(edges, last.u))
    ELSE last.raised # NoError

----------------------------------------------------------------------------
(* The shortest-path module.  An optional value (a weight or a parent that  *)
(* may be None) is a sequence: <<>> is None, <<x>> is x.                    *)

Absent == <<>>

Some(x) == <<x>>

\* PathTreeNode(index, parent, weigth)
PathTreeNode(index, parent, weigth) ==
  [index |-> index, parent |-> parent, weight |-> weigth]

\* the dict built for count vertices: key i maps to a node of weight 0 for
\* the start vertex and of weight None for every other
get_initial_weight_structure(count, start_vertex) ==
  [i \in 0..(count - 1) |->
     IF i = start_vertex THEN PathTreeNode(i, Absent, Some(0))
     ELSE PathTreeNode(i, Absent, Absent)]

\* structure.keys(): a dict view, in insertion order
Keys(structure) == [i \in 1..Cardinality(DOMAIN structure) |-> i - 1]

\* keys[0] on a dict view: a dict view is not subscriptable
KeysSubscript(keys, i) == [raised |-> "TypeError", value |-> 0]

\* returns None for an empty structure; for any other it evaluates keys[0]
find_min_in_weight_structure(structure) ==
  LET keys == Keys(structure)
  IN IF Len(keys) = 0 THEN [raised |-> NoError, value |-> Absent]
     ELSE LET k == KeysSubscript(keys, 0)
          IN IF k.raised # NoError THEN [raised |-> k.raised, value |-> Absent]
             ELSE [raised |-> NoError, value |-> Some(structure[k.value])]

\* from_vertex + edge_weight: PathTreeNode defines no __add__ and a number's
\* __radd__ does not take a PathTreeNode
NodePlus(from_vertex, edge_weight) == [raised |-> "TypeError", value |-> 0]

\* the value of to_vertex after the call and the exception the call raised
relaxation(from_vertex, to_vertex, edge_weight) ==
  IF from_vertex.weight # Absent
  THEN LET sum == NodePlus(from_vertex, edge_weight)
       IN IF to_vertex.weight = Absent
          THEN IF sum.raised # NoError THEN [to_vertex |-> to_vertex, raised |-> sum.raised]
               ELSE [to_vertex |-> [to_vertex EXCEPT !.weight = Some(sum.value),
                                                     !.parent = Some(from_vertex.index)],
                     raised |-> NoError]
          ELSE IF sum.raised # NoError THEN [to_vertex |-> to_vertex, raised |-> sum.raised]
               ELSE IF from_vertex.weight[1] < sum.value
               THEN [to_vertex |-> [to_vertex EXCEPT !.weight = Some(sum.value),
                                                     !.parent = Some(from_vertex.index)],
                     raised |-> NoError]
               ELSE [to_vertex |-> to_vertex, raised |-> NoError]
  ELSE [to_vertex |-> to_vertex, raised |-> NoError]

----------------------------------------------------------------------------
(* dijkstra_algorithm(graph, start_index, end_index), a statement at a time *)

\* no graph object is involved
NoGraph ==
  /\ class = "NoneType"
  /\ vertices_num = 0
  /\ edges = <<>>
  /\ max_degree = 0
  /\ last = NoCall

\* a weighted graph on vertices 0..n-1: weights[u][v] is <<>> when there is no
\* edge from u to v and <<w>> when there is one of weight w
WeightedGraphs(n) ==
  [0..(n - 1) -> [0..(n - 1) -> {Absent} \cup {Some(w) : w \in 0..MaxWeight}]]

\* graph.edges, a list per vertex of its outgoing edges: each edge has a
\* to_vertex (the attribute get_vertex_neighbords reads) and a weight
RECURSIVE EdgesOf(_, _, _)
EdgesOf(weights, u, v) ==
  IF v >= Cardinality(DOMAIN weights) THEN <<>>
  ELSE (IF weights[u][v] = Absent THEN <<>>
        ELSE <<[to_vertex |-> v, weight |-> weights[u][v][1]]>>)
       \o EdgesOf(weights, u, v + 1)

GraphEdges(weights) ==
  [i \in 1..Cardinality(DOMAIN weights) |-> EdgesOf(weights, i - 1, 0)]

\* graph.edges is a Python list, as Graph.edges is, or a container that has
\* the attribute "length" that line 10 reads
Containers == {"list", "has_length"}

InitDijkstra ==
  /\ NoGraph
  /\ pc = "line10"
  /\ raised = NoError
  /\ \E n \in 1..MaxN :
       \E weights \in WeightedGraphs(n), start \in 0..(n - 1), end \in 0..(n - 1),
          container \in Containers :
         frame = [weights |-> weights,
                  container |-> container,
                  graph_edges |-> GraphEdges(weights),
                  start_index |-> start,
                  end_index |-> end,
                  initial_weight_structure |-> <<>>,
                  iterations |-> 0,
                  selected |-> <<>>,
                  result |-> Absent]

\* graph_edges.length, get_initial_weight_structure(...)
Line10 ==
  /\ pc = "line10"
  /\ IF frame.container = "list"
     THEN pc' = "raised" /\ raised' = "AttributeError" /\ frame' = frame
     ELSE /\ pc' = "line12"
          /\ raised' = raised
          /\ frame' = [frame EXCEPT !.initial_weight_structure =
                         get_initial_weight_structure(Len(frame.graph_edges),
                                                      frame.start_index)]
  /\ UNCHANGED gvars

\* from_vertex = graph_edges[start_index]; to_vertex = graph_edges[end_index]
\* (line 11 before them binds determined_weight_structure to an empty dict that
\* nothing reads)
Line12 ==
  /\ pc = "line12"
  /\ IF \/ PyIndex(Len(frame.graph_edges), frame.start_index) = 0
        \/ PyIndex(Len(frame.graph_edges), frame.end_index) = 0
     THEN pc' = "raised" /\ raised' = "IndexError"
     ELSE pc' = "line14" /\ raised' = raised
  /\ UNCHANGED <<frame, class, vertices_num, edges, max_degree, last>>

\* while len(initial_weight_structure) > 0.  The function ends after the
\* loop without a return statement: its result stays None.
Line14 ==
  /\ pc = "line14"
  /\ IF Cardinality(DOMAIN frame.initial_weight_structure) > 0
     THEN pc' = "line15" /\ frame' = [frame EXCEPT !.iterations = @ + 1]
     ELSE pc' = "returned" /\ frame' = frame
  /\ UNCHANGED <<raised, class, vertices_num, edges, max_degree, last>>

\* min_vertex = find_min_in_weight_structure(initial_weight_structure).  The
\* call raises whenever the structure is not empty, so lines 16 to 18 are
\* never run.
Line15 ==
  /\ pc = "line15"
  /\ LET r == find_min_in_weight_structure(frame.initial_weight_structure)
     IN IF r.raised # NoError
        THEN pc' = "raised" /\ raised' = r.raised /\ frame' = frame
        ELSE /\ pc' = "line16"
             /\ raised' = raised
             /\ frame' = [frame EXCEPT !.selected = Append(@, r.value)]
  /\ UNCHANGED gvars

NextDijkstra == Line10 \/ Line12 \/ Line14 \/ Line15

SpecDijkstra == InitDijkstra /\ [][NextDijkstra]_vars

----------------------------------------------------------------------------
(* relaxation(from_vertex, to_vertex, edge_weight) on its own *)

OptWeights == {Absent} \cup {Some(w) : w \in 0..MaxDist}

Nodes ==
  {PathTreeNode(i, p, w) :
     i \in 0..(MaxN - 1), p \in {Absent} \cup {Some(j) : j \in 0..(MaxN - 1)}, w \in OptWeights}

InitRelaxation ==
  /\ NoGraph
  /\ pc = "relaxation"
  /\ raised = NoError
  /\ \E from_vertex \in Nodes, to_vertex \in Nodes, edge_weight \in 0..MaxWeight :
       /\ from_vertex.index # to_vertex.index
       /\ frame = [from_vertex |-> from_vertex, to_vertex |-> to_vertex,
                   edge_weight |-> edge_weight, to_before |-> to_vertex]

Relaxation ==
  /\ pc = "relaxation"
  /\ LET r == relaxation(frame.from_vertex, frame.to_vertex, frame.edge_weight)
     IN /\ frame' = [frame EXCEPT !.to_vertex = r.to_vertex]
        /\ raised' = r.raised
        /\ pc' = IF r.raised # NoError THEN "raised" ELSE "returned"
  /\ UNCHANGED gvars

NextRelaxation == Relaxation

SpecRelaxation == InitRelaxation /\ [][NextRelaxation]_vars

----------------------------------------------------------------------------
(* Properties of the shortest-path module *)

\* the call has ended, by returning or by raising
Ended == pc \in {"returned", "raised"}

\* the vertex sequences without repetition that lead from s to t along edges
PathsBetween(weights, s, t) ==
  LET V == DOMAIN weights
  IN {p \in SeqsUpTo(V, Cardinality(V)) :
        /\ p # <<>>
        /\ p[1] = s
        /\ p[Len(p)] = t
        /\ \A i \in 1..Len(p), j \in 1..Len(p) : i # j => p[i] # p[j]
        /\ \A i \in 1..(Len(p) - 1) : weights[p[i]][p[i + 1]] # Absent}

RECURSIVE PathWeight(_, _)
PathWeight(weights, p) ==
  IF Len(p) <= 1 THEN 0
  ELSE weights[p[1]][p[2]][1] + PathWeight(weights, Tail(p))

\* the vertex sequences of at most n vertices that lead from s to t along edges
WalksBetween(weights, s, t, n) ==
  {p \in SeqsUpTo(DOMAIN weights, n) :
     /\ p # <<>>
     /\ p[1] = s
     /\ p[Len(p)] = t
     /\ \A i \in 1..(Len(p) - 1) : weights[p[i]][p[i + 1]] # Absent}

\* the least total weight of a path from s to t; weights are not negative, so
\* a path that repeats no vertex attains it
MinWeight(weights, s, t) ==
  LET P == PathsBetween(weights, s, t)
  IN CHOOSE d \in {PathWeight(weights, p) : p \in P} :
       \A p \in P : d <= PathWeight(weights, p)

\* C3: when end is reachable from start, dijkstra_algorithm returns the least
\* total weight of a start-to-end path and a path from start to end along
\* edges of the graph that has this weight
C3_ReturnsShortestPath ==
  (Ended /\ PathsBetween(frame.weights, frame.start_index, frame.end_index) # {})
  => /\ pc = "returned"
     /\ frame.result # Absent
     /\ frame.result[1].distance =
          MinWeight(frame.weights, frame.start_index, frame.end_index)
     /\ frame.result[1].path \in
          WalksBetween(frame.weights, frame.start_index, frame.end_index,
                       Len(frame.result[1].path))
     /\ PathWeight(frame.weights, frame.result[1].path) = frame.result[1].distance

\* C4: the main loop runs to its end on every input graph, after at most
\* vertices_num iterations and without selecting a vertex twice
C4_LoopTerminates ==
  Ended =>
    /\ pc = "returned"
    /\ frame.iterations <= Len(frame.graph_edges)
    /\ \A i \in 1..Len(frame.selected), j \in 1..Len(frame.selected) :
         i # j => frame.selected[i] # frame.selected[j]

\* C10: relaxation from a vertex of finite distance d along an edge of weight w
\* sets the target's distance to d + w and its parent to the source exactly
\* when the target's distance is None or greater than d + w, and changes
\* nothing of the target otherwise
C10_RelaxationRule ==
  (Ended /\ frame.from_vertex.weight # Absent) =>
    LET d == frame.from_vertex.weight[1] + frame.edge_weight
        before == frame.to_before
    IN IF before.weight = Absent \/ d < before.weight[1]
       THEN /\ frame.to_vertex.weight = Some(d)
            /\ frame.to_vertex.parent = Some(frame.from_vertex.index)
       ELSE frame.to_vertex = before

====
